---- MODULE Spec2Model ----
(***************************************************************************)
(* Freysoldt finite-size corrections (pymatgen.analysis.defects).          *)
(*                                                                         *)
(* Real quantities are carried as exact integers:                          *)
(*   - lengths in units for which the grid spacing and the defect          *)
(*     position frac * abc are whole numbers (frac = f / FracDen);         *)
(*   - reciprocal frequencies in units of dg, so g = n * dg is the integer *)
(*     n and g2 is n * n;                                                  *)
(*   - potentials in units for which v_G and its transform are whole;      *)
(*   - a mean over cnt samples is carried as its numerator, the record     *)
(*     field den holding cnt;                                              *)
(*   - the energies of perform_es_corr as fractions num / den with pi = 3, *)
(*     and its rounded result in units of 1e-6.                            *)
(* A float that is inf or nan is carried by its kind ("inf", "nan").       *)
(***************************************************************************)
EXTENDS Integers, Sequences, FiniteSets, TLC

VARIABLES
    inp,        \* perform_pot_corr called on its own: the arguments
    ret,        \* ... and what the call left behind
    heap,       \* the objects of the caller and of the call, and the names bound to them
    job,        \* get_freysoldt_correction: the arguments
    pc,         \* ... the position in the function
    axis,       \* ... the loop variable
    es_corr,    \* ... the electrostatic term
    pot_corrs,  \* ... pot_corrs[axis]
    plot_data,  \* ... plot_data[axis]
    frey_corr,  \* ... the returned dictionary
    es_calls,   \* number of calls of perform_es_corr
    pot_calls,  \* number of calls of perform_pot_corr, per axis
    sl,         \* get_freysoldt2d_correction / optimize: the locals of each invocation
    files,      \* the working directory: system.sx and vline-eV.dat
    defect,     \* a Defect object: its kind, its species and self.oxi_state
    charges     \* what get_charge_states did when called on it

potvars == <<inp, ret, heap>>
freyvars == <<job, pc, axis, es_corr, pot_corrs, plot_data, frey_corr, es_calls, pot_calls>>
slabvars == <<sl, files>>
defectvars == <<defect, charges>>
vars == <<potvars, freyvars, slabvars, defectvars>>

----------------------------------------------------------------------------
(* Bounds of the model. *)

MaxNx == 4
MaxSeed == 2
MaxCharge == 1
MaxDielectric == 2
MaxFrac == 9
MaxNoise == 2
MaxTol == 1
MaxCutoff == 2
MaxIter == 2
MaxSearch == 9
MaxOxi == 3

(* Scaled program constants. *)

FracDen == 4
FourPi == 12
HalfWidth == 4
RhoBits == 6
ThresholdSlope == 2
ThresholdC == 3
NudgeHundredths == 1
StepHundredths == 100
OxiDen == 2

----------------------------------------------------------------------------
(* Small helpers. *)

Abs(x) == IF x < 0 THEN -x ELSE x

RECURSIVE Pow2(_)
Pow2(n) == IF n <= 0 THEN 1 ELSE 2 * Pow2(n - 1)

RECURSIVE SumTo(_, _, _)
SumTo(f, lo, hi) == IF lo > hi THEN 0 ELSE f[lo] + SumTo(f, lo + 1, hi)

MaxOf(f, n) == CHOOSE m \in {f[j] : j \in 0..n-1} : \A j \in 0..n-1 : f[j] <= m

(* len(a) of an array indexed from 0 *)
Size(a) == Cardinality(DOMAIN a)

----------------------------------------------------------------------------
(* QModel: rho_rec(g2) and rho_rec_limit0.  A narrow Gaussian-like model   *)
(* that halves with every unit of g2; its limit at g2 -> 0 is rho_rec(0).  *)

RhoRec(g2) == IF g2 > RhoBits THEN 0 ELSE Pow2(RhoBits - g2)

RhoRecLimit0 == Pow2(RhoBits)

----------------------------------------------------------------------------
(* Inputs handed over by the caller. *)

(* Locpot.get_axis_grid: nx equally spaced positions from 0 along the axis *)
AxisGrid(nx, dx) == [i \in 0..nx-1 |-> i * dx]

(* Locpot.get_average_along_axis: a planar average of nx samples *)
Profile(seed, nx) == [i \in 0..nx-1 |-> (seed * (i * i + 1)) % 7]

(* lattice.abc[axis] *)
AxisLength(nx, dx) == nx * dx

(* grid lengths whose transform is exact in Gaussian integers (2, 4), and  *)
(* every odd length                                                        *)
NxSet == {n \in 2..MaxNx : n % 2 = 1 \/ n \in {2, 4}}

ChargeSet == (-MaxCharge)..MaxCharge
DielectricSet == 1..MaxDielectric
FracSet == {-5, -1, 0, 1, 2, 3, 4, 6} \cup {MaxFrac}
SpacingSet == {FracDen, 2 * FracDen}
TolSet == 1..MaxTol

(* rounding residues in the imaginary part of the transform of the real   *)
(* v_G: bin j and bin nx - j carry opposite residues, and for nx = 2 and   *)
(* nx = 4, where every twiddle factor is 1, -1, i or -i, there is none     *)
NoiseSet(nx) ==
    {noise \in [0..nx-1 -> (-MaxNoise)..MaxNoise] :
        \A j \in 0..nx-1 : /\ noise[j] = -noise[(nx - j) % nx]
                           /\ (nx \in {2, 4} => noise[j] = 0)}

PotInputs ==
    [nx : NxSet, dx : SpacingSet, q : ChargeSet, dielectric : DielectricSet,
     axfrac : FracSet, bseed : {1}, dseed : 0..MaxSeed, mad_tol : TolSet]

----------------------------------------------------------------------------
(* perform_pot_corr, step by step.                                         *)

(* axbulkval after the wrap: frac * abc, moved by one period when it is    *)
(* below 0 or above abc                                                    *)
Wrap(axfrac, abc) ==
    LET axbulkval == (axfrac * abc) \div FracDen
    IN  IF axbulkval < 0 THEN axbulkval + abc
        ELSE IF axbulkval > abc THEN axbulkval - abc
        ELSE axbulkval

(* the value of i when the search loop ends: the first index whose grid    *)
(* position is above axbulkval, or the last index when the loop runs out   *)
LoopIndex(axbulkval, axis_grid, nx) ==
    IF \E i \in 0..nx-1 : axbulkval < axis_grid[i]
    THEN CHOOSE i \in 0..nx-1 :
            /\ axbulkval < axis_grid[i]
            /\ \A j \in 0..i-1 : ~(axbulkval < axis_grid[j])
    ELSE nx - 1

RollInd(axbulkval, axis_grid, nx) == nx - LoopIndex(axbulkval, axis_grid, nx)

(* np.roll(a, shift): element j of the result is element j - shift of a *)
Roll(a, shift, n) == [j \in 0..n-1 |-> a[(j - shift) % n]]

(* the profile as it stands after the shift block: rolled only when        *)
(* axbulkval is nonzero                                                    *)
Shifted(a, axbulkval, axis_grid, nx) ==
    IF axbulkval # 0 THEN Roll(a, RollInd(axbulkval, axis_grid, nx), Size(a)) ELSE a

(* np.arange(-nx/2, nx/2, 1, dtype=int): nx consecutive integers starting  *)
(* at -nx/2 truncated toward zero                                          *)
Arange(nx) == [k \in 0..nx-1 |-> k - (nx \div 2)]

(* g in units of dg: the arange rolled by int(nx/2) *)
GFreq(nx) == Roll(Arange(nx), nx \div 2, nx)

(* g2 of bin k (the code's g2[k-1]), k >= 1 *)
G2(nx) == [k \in 1..nx-1 |-> GFreq(nx)[k] * GFreq(nx)[k]]

Fin(v) == [kind |-> "fin", val |-> v]

(* v_G: bin 0 from rho_rec_limit0, bins 1.. from 4 pi / (dielectric g2) *  *)
(* -q * rho_rec(g2) (a division by g2 = 0 gives inf, times q = 0 nan), the *)
(* bin nx // 2 zeroed when nx is even                                      *)
VG(nx, q, dielectric) ==
    [k \in 0..nx-1 |->
        IF k = 0 THEN Fin((FourPi * (-q) * RhoRecLimit0) \div dielectric)
        ELSE IF nx % 2 = 0 /\ k = nx \div 2 THEN Fin(0)
        ELSE IF G2(nx)[k] = 0
             THEN [kind |-> IF q = 0 THEN "nan" ELSE "inf", val |-> 0]
             ELSE Fin((FourPi * (-q) * RhoRec(G2(nx)[k]))
                        \div (dielectric * G2(nx)[k]))]

(* cos and sin of 2 pi m / n for n in {2, 4} *)
Cos4(m, n) == LET t == (m * (4 \div n)) % 4
              IN  IF t = 0 THEN 1 ELSE IF t = 2 THEN -1 ELSE 0

Sin4(m, n) == LET t == (m * (4 \div n)) % 4
              IN  IF t = 1 THEN 1 ELSE IF t = 3 THEN -1 ELSE 0

(* np.fft.fft of finite bins: sum_k v[k] exp(-2 pi i j k / n) *)
FFTReal(v, n) ==
    [j \in 0..n-1 |-> SumTo([k \in 0..n-1 |-> v[k].val * Cos4(j * k, n)], 0, n - 1)]

FFTImag(v, n) ==
    [j \in 0..n-1 |-> SumTo([k \in 0..n-1 |-> -(v[k].val * Sin4(j * k, n))], 0, n - 1)]

(* how the transform came out: "fin", or "inf" when a bin is inf (the      *)
(* butterflies give imaginary parts of +inf and -inf), or "nan" when a bin *)
(* is nan (every output is nan)                                            *)
FFTKind(v, n) ==
    IF \E k \in 0..n-1 : v[k].kind = "inf" THEN "inf"
    ELSE IF \E k \in 0..n-1 : v[k].kind = "nan" THEN "nan"
    ELSE "fin"

(* np.imag(v_R) of a finite transform: the exact part plus the rounding    *)
(* residue of the floating-point transform                                 *)
ImagOf(v, n, noise) ==
    [j \in 0..n-1 |-> FFTImag(v, n)[j] + noise[j]]

(* abs(np.imag(v_R).max()) > mad_tol *)
ImagCheckFails(kind, imag, n, mad_tol) ==
    IF kind = "inf" THEN TRUE
    ELSE IF kind = "nan" THEN FALSE
    ELSE Abs(MaxOf(imag, n)) > mad_tol
(* real(v_R) after the volume and unit scaling *)
VR(nx, q, dielectric) == FFTReal(VG(nx, q, dielectric), nx)

(* numpy's rule for a - b on one-dimensional arrays: the lengths are equal *)
(* or one of them is 1, and the array of length 1 is stretched             *)
CanBroadcast(m, n) == m = n \/ m = 1 \/ n = 1

BroadcastLen(m, n) == IF m = 1 THEN n ELSE m

Sub(a, b) ==
    [j \in 0..BroadcastLen(Size(a), Size(b))-1 |->
        a[IF Size(a) = 1 THEN 0 ELSE j] - b[IF Size(b) = 1 THEN 0 ELSE j]]

(* np.array(defavg) - np.array(pureavg) - np.array(v_R) can be formed *)
ShortOk(defavg, pureavg, v_R) ==
    /\ CanBroadcast(Size(defavg), Size(pureavg))
    /\ CanBroadcast(BroadcastLen(Size(defavg), Size(pureavg)), Size(v_R))

(* short = defavg - pureavg - v_R on the shifted profiles *)
Short(defavg, pureavg, v_R, nx) == Sub(Sub(defavg, pureavg), v_R)

(* checkdis = int((widthsample / 2) / (axis_grid[1] - axis_grid[0])) *)
CheckDis(axis_grid) == HalfWidth \div (axis_grid[1] - axis_grid[0])

(* mid = int(len(short) / 2) *)
Mid(nx) == nx \div 2

(* the indices of range(mid - checkdis, mid + checkdis + 1) *)
WindowRange(mid, checkdis) == (mid - checkdis)..(mid + checkdis)

(* an index the array accepts: negative ones count from the end *)
IndexOk(i, nx) == -nx <= i /\ i <= nx - 1

(* tmppot: short at the window's indices, as a sequence *)
TmpPot(short, mid, checkdis, nx) ==
    [t \in 1..(2 * checkdis + 1) |-> short[(mid - checkdis + t - 1) % nx]]

(* a slip CNum could have: the mean is not negated *)
CNum_NotNegated(tmppot) == SumTo(tmppot, 1, Len(tmppot))

(* C = -np.mean(tmppot), as the numerator over len(tmppot) *)
CNum(tmppot) == -SumTo(tmppot, 1, Len(tmppot))

(* pot_corr = -q * C, as the numerator over len(tmppot) *)
PotCorrNum(q, cnum) == -q * cnum

(* a slip VrCurve could have: the curve is reported as it was subtracted *)
VrCurve_NotShifted(v_R, den, C, nx) == [j \in 0..nx-1 |-> v_R[j] * den]

(* line 295: v_R = [elmnt - C for elmnt in v_R], as numerators over den *)
VrCurve(v_R, den, C, nx) == [j \in 0..nx-1 |-> v_R[j] * den - C]

(* line 294: final_shift = [short[j] + C ...], as numerators over den *)
FinalShift(short, den, C, nx) == [j \in 0..nx-1 |-> short[j] * den + C]

NoResult ==
    [status |-> "none", nan |-> FALSE, axbulkval |-> 0, rollind |-> 0, pureavg |-> <<>>,
     defavg |-> <<>>, g |-> <<>>, g2 |-> <<>>, vgkind |-> <<>>, fftkind |-> "fin",
     imag |-> <<>>, v_R |-> <<>>, short |-> <<>>, tmppot |-> <<>>, den |-> 1,
     C |-> 0, pot_corr |-> 0, Vr |-> <<>>, dft_diff |-> <<>>,
     final_shift |-> <<>>, check |-> <<>>, potcorr |-> 0]

(* perform_pot_corr.  status: "ok" (returned), "imag_error" (the raise of   *)
(* the imaginary-part check), "value_error" (numpy cannot subtract arrays  *)
(* of these lengths), "index_error" (a window index outside the array).    *)
(* nan: v_R, and with it every value derived from it, is nan; the          *)
(* numeric fields derived from v_R then hold 0.  C, pot_corr, potcorr,     *)
(* Vr and final_shift are numerators over den = len(tmppot).               *)
PerformPotCorr(axis_grid, pureavg0, defavg0, abc, q, axfrac, dielectric, mad_tol, noise) ==
    LET nx        == Cardinality(DOMAIN axis_grid)
        axbulkval == Wrap(axfrac, abc)
        pureavg   == Shifted(pureavg0, axbulkval, axis_grid, nx)
        defavg    == Shifted(defavg0, axbulkval, axis_grid, nx)
        v_G       == VG(nx, q, dielectric)
        fftkind   == FFTKind(v_G, nx)
        imag      == IF fftkind = "fin" THEN ImagOf(v_G, nx, noise)
                     ELSE [j \in 0..nx-1 |-> 0]
        v_R       == IF fftkind = "fin" THEN VR(nx, q, dielectric)
                     ELSE [j \in 0..nx-1 |-> 0]
        shortok   == ShortOk(defavg, pureavg, v_R)
        short     == IF shortok THEN Short(defavg, pureavg, v_R, nx) ELSE <<>>
        checkdis  == CheckDis(axis_grid)
        mid       == Mid(Size(short))
        tmppot    == TmpPot(short, mid, checkdis, nx)
        den       == Len(tmppot)
        isnan     == fftkind = "nan"
        C         == IF isnan THEN 0 ELSE CNum(tmppot)
        pot_corr  == IF isnan THEN 0 ELSE PotCorrNum(q, C)
        base      == [NoResult EXCEPT !.axbulkval = axbulkval,
                         !.rollind = IF axbulkval # 0
                                     THEN RollInd(axbulkval, axis_grid, nx) ELSE 0,
                         !.pureavg = pureavg,
                         !.defavg = defavg, !.g = GFreq(nx), !.g2 = G2(nx),
                         !.vgkind = [k \in 0..nx-1 |-> v_G[k].kind],
                         !.fftkind = fftkind, !.imag = imag]
    IN  IF ImagCheckFails(fftkind, imag, nx, mad_tol)
        THEN [base EXCEPT !.status = "imag_error"]
        ELSE IF ~shortok
        THEN [base EXCEPT !.status = "value_error", !.nan = isnan, !.v_R = v_R]
        ELSE IF \E i \in WindowRange(mid, checkdis) : ~IndexOk(i, nx)
        THEN [base EXCEPT !.status = "index_error", !.nan = isnan, !.v_R = v_R,
                          !.short = short]
        ELSE [base EXCEPT !.status = "ok", !.nan = isnan, !.v_R = v_R,
                 !.short = short, !.tmppot = tmppot, !.den = den, !.C = C,
                 !.pot_corr = pot_corr,
                 !.Vr = VrCurve(v_R, den, C, nx),
                 !.dft_diff = Sub(defavg, pureavg),
                 !.final_shift = FinalShift(short, den, C, nx),
                 !.check = <<mid - checkdis, mid + checkdis + 1>>,
                 !.potcorr = IF isnan THEN 0 ELSE -q * C]

----------------------------------------------------------------------------
(* The objects in memory.  obj[id] is the content of object id, res the id *)
(* of the object the last operation gave back, frame the local names of    *)
(* the running function and the ids of the objects they are bound to (0:   *)
(* not bound yet).  Arguments are passed as references: on entry a         *)
(* parameter is bound to the caller's own object.                          *)

NoHeap == [obj |-> <<>>, res |-> 0, frame |-> <<>>]

(* an operation that builds its result as a new object *)
New(h, c) == [h EXCEPT !.obj = Append(@, c), !.res = Len(h.obj) + 1]

(* name = <the result of the last operation> *)
Rebind(h, name) == [h EXCEPT !.frame[name] = h.res]

(* a[...] = c, a /= c: the object a itself is written *)
SetItems(h, a, c) == [h EXCEPT !.obj[a] = c]

(* a slip NpRoll could have: the array handed in is rolled where it is *)
NpRoll_InPlace(h, a, shift) ==
    [h EXCEPT !.obj[a] = Roll(h.obj[a], shift, Size(h.obj[a])), !.res = a]

(* np.roll(a, shift): the rolled elements in a new array *)
NpRoll(h, a, shift) == New(h, Roll(h.obj[a], shift, Size(h.obj[a])))

(* the frame of perform_pot_corr on entry *)
PotFrame(axis_grid, pureavg, defavg, lattice, q, dielectric) ==
    [axis_grid |-> axis_grid, pureavg |-> pureavg, defavg |-> defavg,
     lattice |-> lattice, q |-> q, dielectric |-> dielectric,
     v_G |-> 0, v_R |-> 0, short |-> 0, tmppot |-> 0, final_shift |-> 0,
     md_Vr |-> 0, md_x |-> 0, md_dft_diff |-> 0, md_final_shift |-> 0]

(* a caller's objects and a call of perform_pot_corr on them *)
CallerHeap(axis_grid, pureavg, defavg, abc, q, dielectric) ==
    [obj |-> <<axis_grid, pureavg, defavg, abc, q, dielectric>>, res |-> 0,
     frame |-> PotFrame(1, 2, 3, 4, 5, 6)]

(* what the statements of perform_pot_corr do to the objects, for a call   *)
(* that came out as r: lines 254-255 (the rolls), 264-269 (v_G is made and *)
(* filled), 272 (the transform), 276 (v_R /= ..., in place), 277, 280 (the *)
(* np.array copies of defavg and pureavg, then, when these two can be      *)
(* subtracted, the copy of v_R, and short), 284, 294, 295 and 304-311 (the *)
(* metadata, whose 'x' is the axis_grid handed in)                         *)
PotCorrMem(h0, r, nx, q, dielectric) ==
    LET rolled == r.axbulkval # 0
        h1  == IF rolled THEN Rebind(NpRoll(h0, h0.frame.pureavg, r.rollind), "pureavg")
               ELSE h0
        h2  == IF rolled THEN Rebind(NpRoll(h1, h1.frame.defavg, r.rollind), "defavg")
               ELSE h1
        h3  == Rebind(New(h2, [k \in 0..nx-1 |-> Fin(0)]), "v_G")
        h4  == SetItems(h3, h3.frame.v_G, VG(nx, q, dielectric))
        h5  == Rebind(New(h4, [kind |-> r.fftkind, imag |-> r.imag, scaled |-> FALSE]),
                      "v_R")
        h6  == SetItems(h5, h5.frame.v_R, [h5.obj[h5.frame.v_R] EXCEPT !.scaled = TRUE])
        h7  == Rebind(New(h6, r.v_R), "v_R")
        h7b == New(New(h7, h7.obj[h7.frame.defavg]), h7.obj[h7.frame.pureavg])
        h8  == New(h7b, h7.obj[h7.frame.v_R])
        h9  == Rebind(New(h8, r.short), "short")
        h10 == Rebind(New(h9, r.tmppot), "tmppot")
        h11 == Rebind(New(h10, r.final_shift), "final_shift")
        h12 == Rebind(New(h11, r.Vr), "v_R")
        h13 == Rebind(New(h12, r.dft_diff), "md_dft_diff")
        h14 == [h13 EXCEPT !.frame["md_Vr"] = h13.frame.v_R,
                           !.frame["md_x"] = h13.frame.axis_grid,
                           !.frame["md_final_shift"] = h13.frame.final_shift]
    IN  IF r.status = "imag_error" THEN h5
        ELSE IF r.status = "value_error"
        THEN IF CanBroadcast(Size(h7.obj[h7.frame.defavg]), Size(h7.obj[h7.frame.pureavg]))
             THEN h8 ELSE h7b
        ELSE IF r.status = "index_error" THEN h9
        ELSE h14

----------------------------------------------------------------------------
(* perform_es_corr and the helpers it takes from the utilities.            *)

(* generate_reciprocal_vectors_squared: the squared norms of the integer   *)
(* triples of the bounding box within the cutoff, the zero vector left out *)
RecipBox == {<<i, j, k>> : i \in -1..1, j \in -1..1, k \in -1..1}

NormSq(t) == t[1] * t[1] + t[2] * t[2] + t[3] * t[3]

RecipTriples(encut) == {t \in RecipBox : NormSq(t) # 0 /\ NormSq(t) <= encut}

RECURSIVE SumOver(_, _)
SumOver(S, f) ==
    IF S = {} THEN 0
    ELSE LET t == CHOOSE u \in S : TRUE IN f[t] + SumOver(S \ {t}, f)

(* a float that is not whole: the fraction num / den, den > 0 *)
Rat(n, d) == [num |-> n, den |-> d]

(* a - b; fractions over the same denominator keep it *)
RatSub(a, b) ==
    IF a.den = b.den THEN Rat(a.num - b.num, a.den)
    ELSE Rat(a.num * b.den - b.num * a.den, a.den * b.den)

(* abs(a) < tol for a whole tol *)
RatAbsLess(a, tol) == Abs(a.num) < tol * a.den

(* k more decimal digits of r / d, 0 <= r < d, by long division: the       *)
(* digits as a number, and the remainder left                              *)
RECURSIVE Decimals(_, _, _)
Decimals(r, d, k) ==
    IF k = 0 THEN [q |-> 0, r |-> r]
    ELSE LET p == Decimals(r, d, k - 1)
         IN  [q |-> p.q * 10 + (p.r * 10) \div d, r |-> (p.r * 10) % d]

(* round(x, 6), in units of 1e-6: the nearest millionth, a tie to the even *)
(* one                                                                     *)
Round6(x) ==
    LET s  == Decimals(x.num % x.den, x.den, 6)
        fl == (x.num \div x.den) * 1000000 + s.q
    IN  IF 2 * s.r > x.den THEN fl + 1
        ELSE IF 2 * s.r < x.den THEN fl
        ELSE IF fl % 2 = 0 THEN fl ELSE fl + 1

(* e_iso(encut): the integral of rho_rec(g^2)^2 up to gcut, times q^2,     *)
(* divided by pi                                                           *)
EIso(q, encut) ==
    Rat(SumTo([g \in 1..encut |-> RhoRec(g * g) * RhoRec(g * g)], 1, encut) * (q * q),
        FourPi \div 4)

(* e_per(encut): the lattice sum of rho_rec(g2)^2 / g2 times q^2 2 pi / vol *)
(* plus the g = 0 term q^2 4 pi rho_rec_limit0 / vol.  The terms of the    *)
(* sum are carried over the common denominator 6 of the norms 1, 2, 3 the  *)
(* box holds, and 2 pi = 6 takes it away.                                  *)
EPer(q, encut, vol) ==
    Rat(SumOver(RecipTriples(encut),
                [t \in RecipBox |-> IF NormSq(t) = 0 THEN 0
                                    ELSE RhoRec(NormSq(t)) * RhoRec(NormSq(t))
                                            * ((FourPi \div 2) \div NormSq(t))])
            * (q * q)
        + (q * q) * FourPi * RhoRecLimit0,
        vol)

(* converge: evaluate f at growing cutoffs until two consecutive values    *)
(* agree within tol or the cutoff passes max_cutoff; the last value is     *)
(* returned either way.  f is given as its table over the cutoffs.         *)
RECURSIVE ConvergeFrom(_, _, _, _)
ConvergeFrom(f, c, tol, max_cutoff) ==
    IF c + 1 > max_cutoff THEN f[c]
    ELSE IF RatAbsLess(RatSub(f[c + 1], f[c]), tol) THEN f[c + 1]
    ELSE ConvergeFrom(f, c + 1, tol, max_cutoff)

Converge(f, tol, max_cutoff) == ConvergeFrom(f, 0, tol, max_cutoff)

(* es_corr = round((eiso - eper) / dielectric * hart_to_ev, 6), in units   *)
(* of 1e-6                                                                 *)
PerformEsCorr(vol, q, dielectric, energy_cutoff, mad_tol) ==
    LET eiso == Converge([c \in 0..energy_cutoff |-> EIso(q, c)], mad_tol, energy_cutoff)
        eper == Converge([c \in 0..energy_cutoff |-> EPer(q, c, vol)], mad_tol, energy_cutoff)
        diff == RatSub(eiso, eper)
    IN  Round6(Rat(diff.num, diff.den * dielectric))

----------------------------------------------------------------------------
(* The slab pathway: get_freysoldt2d_correction, write_sphinx_input,       *)
(* run_sxdefectalign2d, optimize, parse_output.                            *)
(*                                                                         *)
(* shift is carried in units of 0.01 / Nudge(max_iter), fine enough for    *)
(* every midpoint the loop can form to be a whole number.  An infinite     *)
(* bracket end is the empty sequence, a finite one <<value>>.              *)
(*                                                                         *)
(* The module binds none of the names which, structure, subprocess and     *)
(* logger that these functions use, and the three nested functions are     *)
(* defined after the return of get_freysoldt2d_correction.  An invocation  *)
(* is either a call of get_freysoldt2d_correction, or (direct) the nested  *)
(* functions write_sphinx_input, optimize and parse_output taken out of it *)
(* and called in that order; names holds the names bound when it runs.     *)

Procs == {1, 2}

Nudge(max_iter) == NudgeHundredths * Pow2(max_iter + 1)

Step(max_iter) == StepHundredths * Pow2(max_iter + 1)

(* np.sign *)
Sign(x) == IF x > 0 THEN 1 ELSE IF x < 0 THEN -1 ELSE 0

(* what np.polyfit gives for the two ends of a profile: m1, C1, m2, C2 *)
SlopeSet == {-2, -1, 0, 2}

InterceptPairs == {<<2, 4>>, <<2, 2>>, <<0, 6>>}

FitSet == {[m1 |-> a, m2 |-> b, C1 |-> c[1], C2 |-> c[2]] :
              a \in SlopeSet, b \in SlopeSet, c \in InterceptPairs}

NoFit == [m1 |-> 0, m2 |-> 0, C1 |-> 0, C2 |-> 0]

(* the profiles the executable can answer with: any fit, or only a profile *)
(* that is flat at once and one that asks for a move                       *)
ConcFits == {[m1 |-> 0, m2 |-> 0, C1 |-> 2, C2 |-> 2],
             [m1 |-> 2, m2 |-> 2, C1 |-> 2, C2 |-> 4]}

(* profiles that never pass the test of line 515: slopes of opposite sign, *)
(* both slopes up, both slopes down                                        *)
MoveFits == {[m1 |-> -2, m2 |-> 2, C1 |-> 2, C2 |-> 4],
             [m1 |-> 2, m2 |-> 2, C1 |-> 2, C2 |-> 4],
             [m1 |-> -2, m2 |-> -2, C1 |-> 2, C2 |-> 4]}

ToolFits(tool) ==
    IF tool = "any" THEN FitSet
    ELSE IF tool = "moves" THEN MoveFits
    ELSE ConcFits

(* a slip Converged could have: the intercepts are not compared *)
Converged_SlopesOnly(f) ==
    Abs(f.m1) < ThresholdSlope /\ Abs(f.m2) < ThresholdSlope

(* line 515: the test that ends the search *)
Converged(f) ==
    /\ Abs(f.m1) < ThresholdSlope
    /\ Abs(f.m2) < ThresholdSlope
    /\ Abs(f.C1 - f.C2) < ThresholdC

(* lines 509-510: the slopes and intercepts of the two fitted lines *)
Fitted(o, f) == [o EXCEPT !.m1 = f.m1, !.m2 = f.m2, !.C1 = f.C1, !.C2 = f.C2]

(* lines 515-542: the rest of one pass of the loop, from the fit f *)
OptBranch(o, f) ==
    LET o1 == Fitted(o, f)
    IN  IF Converged(f) THEN [o1 EXCEPT !.done = TRUE]
        ELSE IF f.m1 * f.m2 < 0 THEN
            [o1 EXCEPT !.shift = IF o.shifting = "right" THEN @ + Nudge(o.max_iter)
                                 ELSE @ - Nudge(o.max_iter),
                       !.log = @ \o <<"info", "info">>]
        ELSE IF (f.m1 + f.m2) * Sign(o.q) > 0 THEN
            [o1 EXCEPT !.smin = <<o.shift>>,
                       !.shift = IF o.smax = <<>> THEN @ + Step(o.max_iter)
                                 ELSE (o.shift + o.smax[1]) \div 2,
                       !.shifting = "right",
                       !.log = Append(@, "info")]
        ELSE IF (f.m1 + f.m2) * Sign(o.q) < 0 THEN
            [o1 EXCEPT !.smax = <<o.shift>>,
                       !.shift = IF o.smin = <<>> THEN @ - Step(o.max_iter)
                                 ELSE (o.smin[1] + o.shift) \div 2,
                       !.shifting = "left",
                       !.log = Append(@, "info")]
        ELSE o1

(* line 498: the loop's guard *)
LoopGoesOn(o) == ~o.done /\ o.counter < o.max_iter

(* lines 544-549: the arguments of the final run *)
FinalArgs(o) ==
    IF o.done
    THEN [shift |-> o.shift, C |-> (o.C1 + o.C2) \div 2, only_profile |-> FALSE]
    ELSE [shift |-> 0, C |-> 0, only_profile |-> FALSE]

NoRun == [shift |-> 0, C |-> 0, only_profile |-> TRUE]

NoOut == [writer |-> 0, src |-> 0, shift |-> 0, C |-> 0]

NoFile == [writer |-> 0, src |-> 0, shift |-> 0, C |-> 0, full |-> FALSE, fit |-> NoFit]

(* system.sx: who wrote the text it starts with, whether it holds nothing  *)
(* (absent, or opened for writing and not yet written), its length, and    *)
(* whose longer text is left over behind the writer's                      *)
NoSx == [writer |-> 0, Q |-> 0, empty |-> TRUE, len |-> 0, tail |-> {}]

(* no process of the executable is running; of a running one: whether it   *)
(* has read system.sx, and what it found there                             *)
NoProc == [read |-> FALSE, src |-> 0, empty |-> FALSE, tail |-> {}]

(* the names the slab functions use and the module does not bind *)
SlabNames == {"which", "structure", "subprocess", "logger"}

(* lines 491-496: the locals of optimize as it starts, for an invocation   *)
(* that has not begun                                                      *)
Locals(q, max_iter, tool, direct, parses, installed, names, at) ==
    [pc |-> at, error |-> "", direct |-> direct, parses |-> parses, installed |-> installed,
     names |-> names, q |-> q, max_iter |-> max_iter, tool |-> tool,
     smin |-> <<>>, smax |-> <<>>, shift |-> 0, shifting |-> "right",
     done |-> FALSE, counter |-> -1, m1 |-> 0, m2 |-> 0, C1 |-> 0, C2 |-> 0,
     runs |-> 0, lastrun |-> NoRun, final |-> NoRun, proc |-> NoProc, out |-> NoOut,
     es |-> NoOut, metadata |-> NoFile, readfrom |-> {}, log |-> <<>>, sxlen |-> 0]

(* the length of the text write_sphinx_input writes: the cell and slab     *)
(* lines (sxlen) and the characters of -q in the line of Q                 *)
SxLen(o) == o.sxlen + (IF o.q > 0 THEN 2 ELSE 1)

IdleLocals == Locals(0, 0, "any", FALSE, FALSE, TRUE, {}, "idle")

(* where an invocation starts: a call of get_freysoldt2d_correction, or    *)
(* the call of write_sphinx_input                                          *)
StartAt(direct) == IF direct THEN "write" ELSE "start"

SlabIdle == sl = [p \in Procs |-> IdleLocals] /\ files = [sx |-> NoSx, vline |-> NoFile]

(* an exception leaves the invocation *)
Raise(o, e) == [o EXCEPT !.pc = "raised", !.error = e]

(* get_freysoldt2d_correction.  As the file stands its def statement does  *)
(* not compile: dielectric is a parameter twice (lines 376, 381) and q is  *)
(* a keyword twice in the call of optimize (lines 404-405), a SyntaxError. *)
(* With the two repeats taken out (parses) lines 384-397 run: which is     *)
(* looked up and called, a missing executable is an error, a charge of 0   *)
(* returns at once, structure is looked up, and the call of                *)
(* write_sphinx_input finds the local name not yet bound                   *)
Begin(p) ==
    /\ sl[p].pc = "start"
    /\ sl' = [sl EXCEPT ![p] =
                IF ~sl[p].parses THEN Raise(sl[p], "SyntaxError")
                ELSE IF "which" \notin sl[p].names THEN Raise(sl[p], "NameError")
                ELSE IF ~sl[p].installed THEN Raise(sl[p], "RuntimeError")
                ELSE IF sl[p].q = 0 THEN [sl[p] EXCEPT !.pc = "done"]
                ELSE IF "structure" \notin sl[p].names THEN Raise(sl[p], "NameError")
                ELSE Raise(sl[p], "UnboundLocalError")]
    /\ UNCHANGED <<potvars, defectvars, freyvars, files>>

(* write_sphinx_input, lines 421-443: the lines are built and system.sx is *)
(* opened for writing, which empties it                                    *)
WriteSphinxInput(p) ==
    /\ sl[p].pc = "write"
    /\ files' = [files EXCEPT !.sx = [NoSx EXCEPT !.writer = p]]
    /\ sl' = [sl EXCEPT ![p].pc = "writing"]
    /\ UNCHANGED <<potvars, defectvars, freyvars>>

(* line 444: the lines are written from the start of the file and the     *)
(* file is closed: system.sx holds this invocation's cell, slab and        *)
(* charge, followed by what is left of a longer text another invocation    *)
(* wrote since this one opened the file                                    *)
WriteLines(p) ==
    /\ sl[p].pc = "writing"
    /\ files' = [files EXCEPT !.sx =
                    [writer |-> p, Q |-> -sl[p].q, empty |-> FALSE,
                     len |-> IF files.sx.len > SxLen(sl[p]) THEN files.sx.len
                             ELSE SxLen(sl[p]),
                     tail |-> IF files.sx.len > SxLen(sl[p])
                              THEN (files.sx.tail \cup {files.sx.writer}) \ {p}
                              ELSE {}]]
    /\ sl' = [sl EXCEPT ![p].pc = "run"]
    /\ UNCHANGED <<potvars, defectvars, freyvars>>

(* lines 498-500 and 457-474: the loop goes on, the counter goes up and    *)
(* the executable is started for the profile only (Popen returns)          *)
ProfileRun(p) ==
    /\ sl[p].pc = "run"
    /\ LoopGoesOn(sl[p])
    /\ sl' = [sl EXCEPT ![p] =
                IF "subprocess" \notin sl[p].names
                THEN Raise([sl[p] EXCEPT !.counter = @ + 1], "NameError")
                ELSE [sl[p] EXCEPT !.pc = "wait", !.counter = @ + 1, !.runs = @ + 1,
                                   !.lastrun = [shift |-> sl[p].shift, C |-> 0,
                                                only_profile |-> TRUE],
                                   !.proc = NoProc]]
    /\ UNCHANGED <<potvars, defectvars, freyvars, files>>

(* line 475, while the invocation waits in communicate(): the executable   *)
(* reads system.sx as it is then                                           *)
ExecReads(p) ==
    /\ sl[p].pc \in {"wait", "finalwait"}
    /\ ~sl[p].proc.read
    /\ sl' = [sl EXCEPT ![p].proc = [read |-> TRUE, src |-> files.sx.writer,
                                     empty |-> files.sx.empty, tail |-> files.sx.tail],
                        ![p].readfrom = @ \cup {files.sx.writer} \cup files.sx.tail]
    /\ UNCHANGED <<potvars, defectvars, freyvars, files>>

(* lines 475-479: the profile run ends: it has written vline-eV.dat, or it *)
(* exits with a nonzero code, as it does when system.sx held nothing       *)
ProfileEnd(p) ==
    /\ sl[p].pc = "wait"
    /\ \/ \E f \in ToolFits(sl[p].tool) :
            /\ sl[p].proc.read /\ ~sl[p].proc.empty
            /\ files' = [files EXCEPT !.vline =
                            [writer |-> p, src |-> sl[p].proc.src,
                             shift |-> sl[p].lastrun.shift, C |-> 0, full |-> FALSE,
                             fit |-> f]]
            /\ sl' = [sl EXCEPT ![p].pc = "load", ![p].proc = NoProc]
       \/ /\ sl' = [sl EXCEPT ![p] = Raise([sl[p] EXCEPT !.proc = NoProc], "RuntimeError")]
          /\ UNCHANGED files
    /\ UNCHANGED <<potvars, defectvars, freyvars>>

(* lines 501-542: vline-eV.dat is loaded, the two lines are fitted, the    *)
(* slopes are logged through logger, and the search state moves            *)
LoadAndFit(p) ==
    /\ sl[p].pc = "load"
    /\ sl' = [sl EXCEPT ![p] =
                IF "logger" \notin sl[p].names
                THEN Raise([Fitted(sl[p], files.vline.fit) EXCEPT
                                !.readfrom = @ \cup {files.vline.writer}],
                           "NameError")
                ELSE [OptBranch(sl[p], files.vline.fit) EXCEPT
                          !.pc = "run",
                          !.readfrom = @ \cup {files.vline.writer}]]
    /\ UNCHANGED <<potvars, defectvars, freyvars, files>>

(* lines 544-549 and 457-474: the loop is over; the outcome is logged and  *)
(* the full run is started (Popen returns) with the shift and the averaged *)
(* intercept found, or with 0 and 0 when the search gave up                *)
FinalRun(p) ==
    /\ sl[p].pc = "run"
    /\ ~LoopGoesOn(sl[p])
    /\ sl' = [sl EXCEPT ![p] =
                IF "logger" \notin sl[p].names THEN Raise(sl[p], "NameError")
                ELSE IF "subprocess" \notin sl[p].names
                THEN Raise([sl[p] EXCEPT !.log = Append(@, "info")], "NameError")
                ELSE [sl[p] EXCEPT !.pc = "finalwait",
                                   !.final = FinalArgs(sl[p]),
                                   !.proc = NoProc,
                                   !.log = Append(@, "info")]]
    /\ UNCHANGED <<potvars, defectvars, freyvars, files>>

(* lines 475-479: the full run ends: it has written vline-eV.dat and its   *)
(* standard output is what optimize returns, or it exits with a nonzero    *)
(* code                                                                    *)
FinalEnd(p) ==
    /\ sl[p].pc = "finalwait"
    /\ \/ /\ sl[p].proc.read /\ ~sl[p].proc.empty
          /\ files' = [files EXCEPT !.vline =
                            [writer |-> p, src |-> sl[p].proc.src,
                             shift |-> sl[p].final.shift, C |-> sl[p].final.C,
                             full |-> TRUE, fit |-> NoFit]]
          /\ sl' = [sl EXCEPT ![p].pc = "parse", ![p].proc = NoProc,
                              ![p].out = [writer |-> p, src |-> sl[p].proc.src,
                                          shift |-> sl[p].final.shift,
                                          C |-> sl[p].final.C]]
       \/ /\ sl' = [sl EXCEPT ![p] = Raise([sl[p] EXCEPT !.proc = NoProc], "RuntimeError")]
          /\ UNCHANGED files
    /\ UNCHANGED <<potvars, defectvars, freyvars>>

(* parse_output: the correction is read off the output, the curves are     *)
(* loaded from vline-eV.dat                                                *)
ParseOutput(p) ==
    /\ sl[p].pc = "parse"
    /\ sl' = [sl EXCEPT ![p].pc = "done", ![p].es = sl[p].out,
                        ![p].metadata = files.vline,
                        ![p].readfrom = @ \cup {files.vline.writer}]
    /\ UNCHANGED <<potvars, defectvars, freyvars, files>>

SlabStep(p) ==
    \/ Begin(p)
    \/ WriteSphinxInput(p)
    \/ WriteLines(p)
    \/ ProfileRun(p)
    \/ ExecReads(p)
    \/ ProfileEnd(p)
    \/ LoadAndFit(p)
    \/ FinalRun(p)
    \/ FinalEnd(p)
    \/ ParseOutput(p)

----------------------------------------------------------------------------
(* Defect (core.py): the constructor and get_charge_states.  A number is   *)
(* a python int or float: its type and its value, carried as the          *)
(* numerator over OxiDen.                                                  *)

PyFloat(n) == [ty |-> "float", v |-> n]

PyInt(k) == [ty |-> "int", v |-> k * OxiDen]

(* the floats and the ints a caller can pass as oxi_state *)
OxiSet == {PyFloat(n) : n \in (-(OxiDen * MaxOxi))..(OxiDen * MaxOxi)}
              \cup {PyInt(k) : k \in (-MaxOxi)..MaxOxi}

(* the oxidation state of the species on the defect site, as handed in *)
SpeciesOxi == {PyFloat(-1), PyFloat(OxiDen * 2)}

(* the oxidation state add_oxidation_state_by_guess gives that species *)
GuessOxi == {PyInt(-2), PyFloat(-(OxiDen * 2)), PyFloat(1), PyFloat(OxiDen * MaxOxi)}

(* icsd_oxidation_states and oxidation_states of the species of site *)
ElementStates ==
    {[icsd |-> <<2, 3>>, all |-> <<-2, -1, 1, 2, 3>>],
     [icsd |-> <<-3, 3>>, all |-> <<-3, -2, -1, 1, 2, 3>>],
     [icsd |-> <<>>, all |-> <<-2, 0, 3>>],
     [icsd |-> <<>>, all |-> <<>>]}

(* the arguments of the constructor and what they are made of: the class,  *)
(* multiplicity and oxi_state (None is the empty sequence), the number of  *)
(* sites equivalent to the defect site, the state of the species on the    *)
(* defect site and the one the guess gives it, the states known for the    *)
(* species of site; and whether the interpreter's int has is_integer       *)
(* (python 3.12 on)                                                        *)
DefectInputs ==
    [kind : {"vacancy", "substitution"},
     mult_arg : {<<>>, <<2>>}, n_equiv : {1, 4},
     oxi_arg : {<<>>} \cup {<<x>> : x \in OxiSet},
     site_oxi : SpeciesOxi, guess_oxi : GuessOxi, states : ElementStates,
     int_is_integer : BOOLEAN]

(* line 52: the multiplicity given, or get_multiplicity(): the number of   *)
(* sites equivalent to the defect site                                     *)
MultiplicityOf(d) == IF d.mult_arg = <<>> THEN d.n_equiv ELSE d.mult_arg[1]

(* lines 53-55: add_oxidation_state_by_guess rewrites, in place, the       *)
(* states of the species of the structure handed in                        *)
SiteOxiAfterGuess(d) == IF d.oxi_arg = <<>> THEN d.guess_oxi ELSE d.site_oxi

(* |x - rm_oxi| over OxiDen *)
OxiAbsDiff(x, rm_oxi) ==
    IF x * OxiDen >= rm_oxi.v THEN x * OxiDen - rm_oxi.v ELSE rm_oxi.v - x * OxiDen

(* min(sub_states, key=lambda x: abs(x - rm_oxi)): the first of the states *)
(* nearest to rm_oxi                                                       *)
Nearest(sub_states, rm_oxi) ==
    LET i == CHOOSE j \in 1..Len(sub_states) :
                 /\ \A k \in 1..Len(sub_states) :
                        OxiAbsDiff(sub_states[j], rm_oxi) <= OxiAbsDiff(sub_states[k], rm_oxi)
                 /\ \A k \in 1..(j - 1) :
                        OxiAbsDiff(sub_states[k], rm_oxi) > OxiAbsDiff(sub_states[j], rm_oxi)
    IN  sub_states[i]

(* lines 270-272: the ICSD states of the species put in, or all its states *)
(* when there are none                                                     *)
SubStates(st) == IF Len(st.icsd) = 0 THEN st.all ELSE st.icsd

(* Vacancy.get_oxi_state: minus the state of the species removed;          *)
(* Substitution.get_oxi_state: the state defect_structure chose for the    *)
(* species put in, an int, minus the state of the species removed          *)
GetOxiState(d, site_oxi) ==
    IF d.kind = "vacancy" THEN [ty |-> site_oxi.ty, v |-> -site_oxi.v]
    ELSE [ty |-> site_oxi.ty,
          v |-> Nearest(SubStates(d.states), site_oxi) * OxiDen - site_oxi.v]

(* line 56: self.oxi_state *)
OxiStateOf(d) ==
    IF d.oxi_arg = <<>> THEN GetOxiState(d, SiteOxiAfterGuess(d)) ELSE d.oxi_arg[1]

(* float.is_integer, int.is_integer *)
IsInteger(x) == x.v % OxiDen = 0

(* int(x): truncation toward zero *)
ToInt(x) == IF x.v >= 0 THEN x.v \div OxiDen ELSE -((-x.v) \div OxiDen)

(* [*range(a, b)]: a, a + 1, ..., b - 1 *)
PyRange(a, b) == [i \in 1..(b - a) |-> a + i - 1]

NoCharges == [status |-> "none", charges |-> <<>>]

(* get_charge_states: status "ok" (a list is returned), "value_error", or  *)
(* "attribute_error" when self.oxi_state is an int and int has no          *)
(* is_integer                                                              *)
GetChargeStates(x, int_is_integer) ==
    IF x.ty = "int" /\ ~int_is_integer
    THEN [status |-> "attribute_error", charges |-> <<>>]
    ELSE IF IsInteger(x)
    THEN LET oxi_state == ToInt(x)
         IN  [status |-> "ok",
              charges |-> IF oxi_state >= 0 THEN PyRange(-1, oxi_state + 2)
                          ELSE PyRange(oxi_state - 1, 2)]
    ELSE [status |-> "value_error", charges |-> <<>>]

NoDefect == [made |-> FALSE, error |-> "", kind |-> "vacancy", mult_arg |-> <<>>,
             n_equiv |-> 1, oxi_arg |-> <<>>, site_oxi |-> PyFloat(0),
             guess_oxi |-> PyFloat(0), states |-> [icsd |-> <<>>, all |-> <<>>],
             int_is_integer |-> FALSE, multiplicity |-> 0, oxi_state |-> PyFloat(0)]

DefectIdle == defect = NoDefect /\ charges = NoCharges

(* Defect.__init__: the multiplicity, the guess of the oxidation states    *)
(* when oxi_state is None, and self.oxi_state; a substitution whose        *)
(* species has no states raises ValueError out of min() (line 273), after  *)
(* the guess                                                               *)
DefectInit ==
    /\ ~defect.made /\ defect.error = ""
    /\ defect' =
          IF /\ defect.oxi_arg = <<>> /\ defect.kind = "substitution"
             /\ Len(SubStates(defect.states)) = 0
          THEN [defect EXCEPT !.error = "ValueError",
                              !.multiplicity = MultiplicityOf(defect),
                              !.site_oxi = SiteOxiAfterGuess(defect)]
          ELSE [defect EXCEPT !.made = TRUE,
                              !.multiplicity = MultiplicityOf(defect),
                              !.site_oxi = SiteOxiAfterGuess(defect),
                              !.oxi_state = OxiStateOf(defect)]
    /\ UNCHANGED <<potvars, freyvars, slabvars, charges>>

(* a call of get_charge_states on the constructed defect *)
CallGetChargeStates ==
    /\ defect.made
    /\ charges.status = "none"
    /\ charges' = GetChargeStates(defect.oxi_state, defect.int_is_integer)
    /\ UNCHANGED <<potvars, freyvars, slabvars, defect>>

----------------------------------------------------------------------------
(* get_freysoldt_correction.                                               *)

Axes == 0..2

(* the dielectric as a float: the number itself, or the mean of the        *)
(* diagonal of the tensor                                                  *)
DielectricFloat(d) == IF Len(d) = 1 THEN d[1] ELSE (d[1] + d[2] + d[3]) \div 3

(* np.mean of the three per-axis corrections p[a].num / p[a].den, as a     *)
(* numerator over the common denominator; nan when one of them is nan      *)
MeanPotCorr(p) ==
    [nan |-> \E a \in Axes : p[a].nan,
     num |-> p[0].num * p[1].den * p[2].den + p[1].num * p[0].den * p[2].den
             + p[2].num * p[0].den * p[1].den,
     den |-> 3 * p[0].den * p[1].den * p[2].den]

(* a slip AxisArgs could have: every axis gets the first axis's coordinate *)
AxisArgs_FirstCoordinate(j, a) ==
    [axis_grid |-> AxisGrid(j.dims[a], j.dx),
     pureavg   |-> Profile(j.bseed + a, j.dims[a]),
     defavg    |-> Profile(j.dseed + a, j.dims[a]),
     abc       |-> AxisLength(j.dims[a], j.dx),
     axfrac    |-> j.fracs[0]]

(* what one pass of the loop hands to perform_pot_corr: the zip of the     *)
(* three lists with the axis index, and defect_frac_coords[axis]           *)
AxisArgs(j, a) ==
    [axis_grid |-> AxisGrid(j.dims[a], j.dx),
     pureavg   |-> Profile(j.bseed + a, j.dims[a]),
     defavg    |-> Profile(j.dseed + a, j.dims[a]),
     abc       |-> AxisLength(j.dims[a], j.dx),
     axfrac    |-> j.fracs[a]]

(* lattice.volume of the orthorhombic cell *)
Volume(j) == AxisLength(j.dims[0], j.dx) * AxisLength(j.dims[1], j.dx)
                * AxisLength(j.dims[2], j.dx)

DimsSet == {d \in [Axes -> NxSet] : d[0] <= d[1] /\ d[1] <= d[2]}

FracTriples == {<<0, 2, 5>>, <<2, 2, 2>>, <<1, 0, 3>>, <<-1, 4, 1>>}

ToAxes(t) == [a \in Axes |-> t[a + 1]]

DielectricInputs == {<<d>> : d \in DielectricSet} \cup {<<1, 2, 3>>}

FreyInputs ==
    [q : ChargeSet, dielectric : DielectricInputs, dims : DimsSet,
     dx : SpacingSet, fracs : {ToAxes(t) : t \in FracTriples},
     bseed : {1}, dseed : 1..MaxSeed, mad_tol : TolSet,
     energy_cutoff : {MaxCutoff}]

IdleJob ==
    [q |-> 0, dielectric |-> <<1>>, dims |-> [a \in Axes |-> 2], dx |-> FracDen,
     fracs |-> [a \in Axes |-> 0], bseed |-> 1, dseed |-> 1, mad_tol |-> 1,
     energy_cutoff |-> MaxCutoff]

NoFrey == [es |-> 0, nan |-> FALSE, num |-> 0, den |-> 1]

FreyReset ==
    /\ axis = 0 /\ es_corr = 0 /\ pot_corrs = <<>> /\ plot_data = <<>>
    /\ frey_corr = NoFrey /\ es_calls = 0 /\ pot_calls = [a \in Axes |-> 0]

FreyIdle == job = IdleJob /\ pc = "idle" /\ FreyReset

PotIdle == inp = (CHOOSE i \in PotInputs : TRUE) /\ heap = NoHeap

(* a Locpot: its planar averages, axis grids and the lattice of its        *)
(* structure                                                               *)
LocpotOf(j, seed) ==
    [avg  |-> [a \in Axes |-> Profile(seed + a, j.dims[a])],
     grid |-> [a \in Axes |-> AxisGrid(j.dims[a], j.dx)],
     abc  |-> [a \in Axes |-> AxisLength(j.dims[a], j.dx)]]

(* the caller's objects and the frame of get_freysoldt_correction on entry *)
FreyCallerHeap(j) ==
    [obj |-> <<LocpotOf(j, j.dseed), LocpotOf(j, j.bseed), j.fracs, j.q, j.dielectric>>,
     res |-> 0,
     frame |-> [defect_locpot |-> 1, bulk_locpot |-> 2, defect_frac_coords |-> 3,
                q |-> 4, dielectric |-> 5, list_axis_grid |-> 0,
                list_defect_plnr_avg_esp |-> 0, list_bulk_plnr_avg_esp |-> 0,
                lattice |-> 0]]

(* [*map(f, [0, 1, 2])]: the three results and the list that holds them *)
MapNew(h, c) ==
    LET n == Len(h.obj)
    IN  New([h EXCEPT !.obj = @ \o <<c[0], c[1], c[2]>>], <<n + 1, n + 2, n + 3>>)

(* lines 84-96: dielectric is rebound to a float, the three lists are      *)
(* built from what the Locpot methods give back, the lattice is copied     *)
FreySetupMem(h, j) ==
    LET h1 == Rebind(New(h, DielectricFloat(j.dielectric)), "dielectric")
        h2 == Rebind(MapNew(h1, h1.obj[h1.frame.defect_locpot].grid), "list_axis_grid")
        h3 == Rebind(MapNew(h2, h2.obj[h2.frame.defect_locpot].avg),
                     "list_defect_plnr_avg_esp")
        h4 == Rebind(MapNew(h3, h3.obj[h3.frame.bulk_locpot].avg),
                     "list_bulk_plnr_avg_esp")
    IN  Rebind(New(h4, h4.obj[h4.frame.defect_locpot].abc), "lattice")

(* lines 111-128: perform_pot_corr runs on the elements of the three lists *)
(* and on the copied lattice, and the frame of the caller is back after it *)
FreyAxisMem(h, a, r, nx, q, dielectric) ==
    LET f == h.frame
        hc == [h EXCEPT !.frame =
                  PotFrame(h.obj[f.list_axis_grid][a + 1],
                           h.obj[f.list_bulk_plnr_avg_esp][a + 1],
                           h.obj[f.list_defect_plnr_avg_esp][a + 1],
                           f.lattice, f.q, f.dielectric)]
    IN  [PotCorrMem(hc, r, nx, q, dielectric) EXCEPT !.frame = f]

(* lines 84-106: the dielectric as a float, the three lists, the lattice,  *)
(* and the one call of perform_es_corr                                     *)
EsCorr ==
    /\ pc = "start"
    /\ es_corr' = PerformEsCorr(Volume(job), job.q, DielectricFloat(job.dielectric),
                                job.energy_cutoff, job.mad_tol)
    /\ es_calls' = es_calls + 1
    /\ heap' = FreySetupMem(heap, job)
    /\ pc' = "loop"
    /\ UNCHANGED <<inp, ret, defectvars, slabvars, job, axis, pot_corrs, plot_data, frey_corr, pot_calls>>

(* lines 111-128: one pass of the loop; an exception of perform_pot_corr   *)
(* leaves the function                                                     *)
PotCorrAxis ==
    /\ pc = "loop"
    /\ axis \in Axes
    /\ \E noise \in NoiseSet(job.dims[axis]) :
      \E args \in {AxisArgs(job, axis)} :
      \E r \in {PerformPotCorr(args.axis_grid, args.pureavg, args.defavg, args.abc,
                                job.q, args.axfrac, DielectricFloat(job.dielectric),
                                job.mad_tol, noise)} :
            /\ pot_calls' = [pot_calls EXCEPT ![axis] = @ + 1]
            /\ heap' = FreyAxisMem(heap, axis, r, job.dims[axis], job.q,
                                   DielectricFloat(job.dielectric))
            /\ IF r.status = "ok"
               THEN /\ pot_corrs' = (axis :> [nan |-> r.nan, num |-> r.pot_corr, den |-> r.den])
                                        @@ pot_corrs
                    /\ plot_data' = (axis :> [x |-> args.axis_grid, Vr |-> r.Vr,
                                              dft_diff |-> r.dft_diff,
                                              final_shift |-> r.final_shift,
                                              check |-> r.check, nan |-> r.nan,
                                              den |-> r.den, potcorr |-> r.potcorr])
                                        @@ plot_data
                    /\ axis' = axis + 1
                    /\ pc' = IF axis = 2 THEN "mean" ELSE "loop"
               ELSE /\ pc' = "raised"
                    /\ UNCHANGED <<pot_corrs, plot_data, axis>>
    /\ UNCHANGED <<inp, ret, defectvars, slabvars, job, es_corr, frey_corr, es_calls>>

(* lines 132-137: the mean of the three corrections and the return *)
Return ==
    /\ pc = "mean"
    /\ frey_corr' = [es |-> es_corr] @@ MeanPotCorr(pot_corrs)
    /\ pc' = "done"
    /\ UNCHANGED <<potvars, defectvars, slabvars, job, axis, es_corr, pot_corrs, plot_data, es_calls, pot_calls>>

Init ==
    /\ job \in FreyInputs /\ pc = "start" /\ FreyReset
    /\ inp = (CHOOSE i \in PotInputs : TRUE) /\ heap = FreyCallerHeap(job)
    /\ ret = NoResult /\ DefectIdle /\ SlabIdle

Next == EsCorr \/ PotCorrAxis \/ Return

Spec == Init /\ [][Next]_vars

----------------------------------------------------------------------------
(* One call of perform_pot_corr on one axis.                               *)

InitPot ==
    /\ inp \in PotInputs /\ ret = NoResult
    /\ heap = CallerHeap(AxisGrid(inp.nx, inp.dx), Profile(inp.bseed, inp.nx),
                         Profile(inp.dseed, inp.nx), AxisLength(inp.nx, inp.dx),
                         inp.q, inp.dielectric)
    /\ DefectIdle /\ FreyIdle /\ SlabIdle

(* the caller calls perform_pot_corr itself *)
CallPotCorr ==
    /\ pc = "idle"
    /\ ret.status = "none"
    /\ \E noise \in NoiseSet(inp.nx) :
       \E r \in {PerformPotCorr(AxisGrid(inp.nx, inp.dx), Profile(inp.bseed, inp.nx),
                                Profile(inp.dseed, inp.nx), AxisLength(inp.nx, inp.dx),
                                inp.q, inp.axfrac, inp.dielectric, inp.mad_tol, noise)} :
          /\ ret' = r
          /\ heap' = PotCorrMem(heap, r, inp.nx, inp.q, inp.dielectric)
    /\ UNCHANGED <<inp, freyvars, slabvars, defectvars>>

NextPot == CallPotCorr

SpecPot == InitPot /\ [][NextPot]_vars

(* One call of perform_pot_corr with profiles and a grid whose lengths are *)
(* free: nb samples of the bulk profile, nd of the defect profile, nx grid *)
(* positions.                                                              *)
LenSet == 0..MaxNx

LenInputs ==
    [nx : NxSet, nb : LenSet, nd : LenSet, dx : SpacingSet, q : ChargeSet,
     dielectric : {1}, axfrac : {0, 2}, bseed : {1}, dseed : {2}, mad_tol : TolSet]

InitLen ==
    /\ inp \in LenInputs /\ ret = NoResult
    /\ heap = CallerHeap(AxisGrid(inp.nx, inp.dx), Profile(inp.bseed, inp.nb),
                         Profile(inp.dseed, inp.nd), AxisLength(inp.nx, inp.dx),
                         inp.q, inp.dielectric)
    /\ DefectIdle /\ FreyIdle /\ SlabIdle

CallPotCorrLens ==
    /\ ret.status = "none"
    /\ \E noise \in NoiseSet(inp.nx) :
       \E r \in {PerformPotCorr(AxisGrid(inp.nx, inp.dx), Profile(inp.bseed, inp.nb),
                                Profile(inp.dseed, inp.nd), AxisLength(inp.nx, inp.dx),
                                inp.q, inp.axfrac, inp.dielectric, inp.mad_tol, noise)} :
          /\ ret' = r
          /\ heap' = PotCorrMem(heap, r, inp.nx, inp.q, inp.dielectric)
    /\ UNCHANGED <<inp, freyvars, slabvars, defectvars>>

(* a caller that makes one of the two calls: perform_pot_corr on its own   *)
(* arrays, or get_freysoldt_correction on its Locpots                      *)
InitInputs == InitPot \/ Init

NextInputs == NextPot \/ Next

SpecInputs == InitInputs /\ [][NextInputs]_vars

NextLen == CallPotCorrLens

SpecLen == InitLen /\ [][NextLen]_vars

(* one invocation; the names bound when it runs: none (the module as it    *)
(* is), those of get_freysoldt2d_correction, those of optimize, or all     *)
InitOpt ==
    /\ \E q \in ChargeSet, direct \in BOOLEAN, parses \in BOOLEAN,
          installed \in BOOLEAN,
          names \in {{}, {"which", "structure"}, {"subprocess"}, SlabNames} :
          /\ direct => (installed /\ ~parses)
          /\ sl = [p \in Procs |->
                    IF p = 1
                    THEN Locals(q, MaxIter, "any", direct, parses, installed, names,
                                StartAt(direct))
                    ELSE IdleLocals]
    /\ files = [sx |-> NoSx, vline |-> NoFile]
    /\ FreyIdle /\ PotIdle /\ ret = NoResult /\ DefectIdle

NextOpt == SlabStep(1)

SpecOpt == InitOpt /\ [][NextOpt]_vars

(* one invocation with a longer search, on profiles that keep it moving *)
InitSearch ==
    /\ \E direct \in BOOLEAN :
          sl = [p \in Procs |->
                  IF p = 1
                  THEN Locals(1, MaxSearch, "moves", direct, FALSE, TRUE, SlabNames, StartAt(direct))
                  ELSE IdleLocals]
    /\ files = [sx |-> NoSx, vline |-> NoFile]
    /\ FreyIdle /\ PotIdle /\ ret = NoResult /\ DefectIdle

SpecSearch == InitSearch /\ [][NextOpt]_vars

(* two invocations in one working directory, their steps interleaved in    *)
(* any order                                                               *)
InitConc ==
    /\ \E q1 \in ChargeSet \ {0}, q2 \in ChargeSet \ {0}, direct \in BOOLEAN,
          len1 \in {0, 2} :
          sl = [p \in Procs |->
                  IF p = 1
                  THEN [Locals(q1, 1, "flat_or_move", direct, FALSE, TRUE, SlabNames,
                               StartAt(direct)) EXCEPT !.sxlen = len1]
                  ELSE Locals(q2, 1, "flat_or_move", TRUE, FALSE, TRUE, SlabNames, "write")]
    /\ files = [sx |-> NoSx, vline |-> NoFile]
    /\ FreyIdle /\ PotIdle /\ ret = NoResult /\ DefectIdle

NextConc == \E p \in Procs : SlabStep(p)

SpecConc == InitConc /\ [][NextConc]_vars

(* a defect is constructed and asked for its charge states *)
InitCharge ==
    /\ \E d \in DefectInputs :
          defect = [made |-> FALSE, error |-> "", multiplicity |-> 0,
                    oxi_state |-> PyFloat(0)] @@ d
    /\ charges = NoCharges
    /\ FreyIdle /\ PotIdle /\ ret = NoResult /\ SlabIdle

NextCharge == DefectInit \/ CallGetChargeStates

SpecCharge == InitCharge /\ [][NextCharge]_vars

----------------------------------------------------------------------------
(* Properties of perform_pot_corr (SpecPot).                               *)

Called == ret.status # "none"

Returned == ret.status = "ok"

(* the arguments of the call, as the caller holds them *)
InpGrid == AxisGrid(inp.nx, inp.dx)
InpBulk == Profile(inp.bseed, inp.nx)
InpDefect == Profile(inp.dseed, inp.nx)
InpAbc == AxisLength(inp.nx, inp.dx)

(* C1: the returned correction is -q * C with C the negated mean, over the *)
(* sampling window check[0] .. check[1] - 1, of the residual               *)
(* (defect - bulk) - V_R of the shifted profiles, and 'potcorr' reports    *)
(* the same value.  With den the number of window samples:                 *)
(* pot_corr * den = q * (sum of the residual over the window).             *)
C1_PotCorrIsMinusQTimesC ==
    (Returned /\ ~ret.nan) =>
        LET lo == ret.check[1]
            hi == ret.check[2] - 1
            resid == [i \in lo..hi |-> (ret.defavg[i] - ret.pureavg[i]) - ret.v_R[i]]
        IN  /\ ret.den = hi - lo + 1
            /\ ret.C = -SumTo(resid, lo, hi)
            /\ ret.pot_corr = -(inp.q * ret.C)
            /\ ret.potcorr = ret.pot_corr
            /\ ret.pureavg = Shifted(InpBulk, ret.axbulkval, InpGrid, inp.nx)
            /\ ret.defavg = Shifted(InpDefect, ret.axbulkval, InpGrid, inp.nx)

C1_Witness ==
    /\ Returned /\ ~ret.nan /\ inp.q # 0 /\ ret.den = 3
    /\ ret.rollind \notin {0, inp.nx} /\ ret.pot_corr # 0 /\ ret.C # 0

(* the position of the defect on the axis, within one period *)
Projected == ((inp.axfrac * InpAbc) \div FracDen) % InpAbc

(* the distance along the periodic axis between position x and sample k *)
CircDist(x, k) ==
    LET d == (x - InpGrid[k]) % InpAbc
    IN  IF d <= InpAbc - d THEN d ELSE InpAbc - d

NearestSamples ==
    {k \in 0..inp.nx-1 : \A m \in 0..inp.nx-1 : CircDist(Projected, k) <= CircDist(Projected, m)}

(* C2: both profiles are shifted circularly by the same amount, the sample *)
(* nearest to the defect's projected position ends up at index 0, and a    *)
(* coordinate of exactly 0 leaves both profiles in their order.            *)
C2_NearestSampleAtIndexZero ==
    Called =>
        /\ ret.pureavg = Roll(InpBulk, ret.rollind, inp.nx)
        /\ ret.defavg = Roll(InpDefect, ret.rollind, inp.nx)
        /\ (-ret.rollind) % inp.nx \in NearestSamples
        /\ (inp.axfrac = 0 => ret.pureavg = InpBulk /\ ret.defavg = InpDefect)

(* C3: bin 0 is the only bin with frequency g = 0, and every bin k >= 1 is *)
(* computed from a nonzero g2, so 1 / g2 and rho_rec never see g2 = 0.     *)
C3_OnlyBinZeroHasZeroFrequency ==
    Called =>
        /\ ret.g[0] = 0
        /\ \A k \in 1..inp.nx-1 : ret.g[k] # 0 /\ ret.g2[k] # 0
        /\ \A k \in 0..inp.nx-1 : ret.vgkind[k] = "fin"

(* the transformed potential is numerically real: every imaginary part is  *)
(* a number of magnitude at most mad_tol                                   *)
NumericallyReal ==
    /\ ret.fftkind = "fin"
    /\ \A j \in 0..inp.nx-1 : Abs(ret.imag[j]) <= inp.mad_tol

(* C4: the call fails with the imaginary-part error exactly when the       *)
(* transformed potential is not numerically real, whatever the sign of the *)
(* offending imaginary part.                                               *)
C4_RaisesIffNotNumericallyReal ==
    Called => (ret.status = "imag_error" <=> ~NumericallyReal)

(* C7: after the wrap the defect position used for the rollover lies in    *)
(* [0, axis length).                                                       *)
C7_WrappedIntoRange ==
    Called => (0 <= ret.axbulkval /\ ret.axbulkval < InpAbc)

(* C11: neither call changes an object of its caller (SpecInputs).  After  *)
(* perform_pot_corr the caller's axis grid, bulk and defect profiles (in   *)
(* their original, unshifted order), lattice, charge and dielectric hold   *)
(* what they held before the call; during and after                        *)
(* get_freysoldt_correction so do the caller's two Locpots, the defect     *)
(* coordinates, the charge and the dielectric.                             *)
C11_InputsNotMutated ==
    /\ (pc = "idle" /\ Called) =>
          /\ heap.obj[1] = InpGrid
          /\ heap.obj[2] = InpBulk
          /\ heap.obj[3] = InpDefect
          /\ heap.obj[4] = InpAbc
          /\ heap.obj[5] = inp.q
          /\ heap.obj[6] = inp.dielectric
    /\ pc \in {"loop", "mean", "done", "raised"} =>
          /\ heap.obj[1] = LocpotOf(job, job.dseed)
          /\ heap.obj[2] = LocpotOf(job, job.bseed)
          /\ heap.obj[3] = job.fracs
          /\ heap.obj[4] = job.q
          /\ heap.obj[5] = job.dielectric

(* a call that rolled the profiles: the names pureavg and defavg end bound *)
(* to new, rolled arrays and the caller's arrays stand in their order      *)
C11_Witness ==
    /\ pc = "idle" /\ Returned /\ ret.rollind \notin {0, inp.nx}
    /\ heap.frame.pureavg \notin 1..6 /\ heap.frame.defavg \notin 1..6
    /\ heap.obj[heap.frame.pureavg] = ret.pureavg /\ ret.pureavg # InpBulk
    /\ heap.obj[heap.frame.defavg] = ret.defavg /\ ret.defavg # InpDefect
    /\ heap.obj[2] = InpBulk /\ heap.obj[3] = InpDefect
    /\ heap.frame.md_x = 1

(* C13: the samples averaged are exactly the 2 * checkdis + 1 consecutive  *)
(* indices mid - checkdis .. mid + checkdis, with mid = floor(nx / 2) and  *)
(* checkdis = floor((widthsample / 2) / spacing); for every grid length    *)
(* and width all of them lie in 0 .. nx - 1, and 'check' is                *)
(* [mid - checkdis, mid + checkdis + 1].                                   *)
C13_WindowInsideGrid ==
    ret.status \in {"ok", "index_error"} =>
        LET mid == inp.nx \div 2
            checkdis == HalfWidth \div inp.dx
        IN  /\ \A i \in (mid - checkdis)..(mid + checkdis) : 0 <= i /\ i <= inp.nx - 1
            /\ Returned
            /\ Len(ret.tmppot) = 2 * checkdis + 1
            /\ \A t \in 1..Len(ret.tmppot) : ret.tmppot[t] = ret.short[mid - checkdis + t - 1]
            /\ ret.check = <<mid - checkdis, mid + checkdis + 1>>

(* C14 as stated: 'Vr' is the model potential V_R that was subtracted to   *)
(* form short, 'dft_diff' is the shifted defect profile minus the shifted  *)
(* bulk profile, and 'final_shift' is short + C at every index.            *)
C14_VrIsModelPotential ==
    (Returned /\ ~ret.nan) =>
        /\ \A j \in 0..inp.nx-1 : ret.Vr[j] = ret.v_R[j] * ret.den
        /\ \A j \in 0..inp.nx-1 : ret.dft_diff[j] = ret.defavg[j] - ret.pureavg[j]
        /\ \A j \in 0..inp.nx-1 : ret.final_shift[j] = ret.short[j] * ret.den + ret.C

(* C14, amended: 'Vr' is V_R - C at every index (the model potential moved *)
(* by the alignment constant), 'dft_diff' is the shifted defect profile    *)
(* minus the shifted bulk profile, and 'final_shift' is short + C; so      *)
(* Vr + final_shift = dft_diff at every index.                             *)
C14_VrIsModelPotentialMinusC ==
    (Returned /\ ~ret.nan) =>
        /\ \A j \in 0..inp.nx-1 : ret.Vr[j] = ret.v_R[j] * ret.den - ret.C
        /\ \A j \in 0..inp.nx-1 : ret.dft_diff[j] = ret.defavg[j] - ret.pureavg[j]
        /\ \A j \in 0..inp.nx-1 : ret.final_shift[j] = ret.short[j] * ret.den + ret.C
        /\ \A j \in 0..inp.nx-1 :
              ret.short[j] = (ret.defavg[j] - ret.pureavg[j]) - ret.v_R[j]
        /\ \A j \in 0..inp.nx-1 :
              ret.Vr[j] + ret.final_shift[j] = ret.dft_diff[j] * ret.den

C14_Witness ==
    /\ Returned /\ ~ret.nan /\ ret.C # 0 /\ ret.den = 3
    /\ ret.rollind \notin {0, inp.nx}
    /\ \E j \in 0..inp.nx-1 : ret.v_R[j] # 0 /\ ret.dft_diff[j] # 0

(* the three lengths of the call are not all the same (SpecLen) *)
Mismatched == ~(inp.nb = inp.nx /\ inp.nd = inp.nx)

(* C12: when the bulk profile, the defect profile and the axis grid do not *)
(* all have the same number of samples, the call is rejected with an       *)
(* invalid-input error and returns no correction value.                    *)
C12_MismatchedLengthsRejected ==
    (Called /\ Mismatched) => ret.status = "value_error"

----------------------------------------------------------------------------
(* Properties of get_freysoldt_correction (Spec).                          *)

JobDielectric == DielectricFloat(job.dielectric)

(* what perform_pot_corr returns for axis a's own grid, profiles and       *)
(* coordinate (the rounding residue does not enter a returned value)       *)
OwnAxisResult(a) ==
    PerformPotCorr(AxisGrid(job.dims[a], job.dx), Profile(job.bseed + a, job.dims[a]),
                   Profile(job.dseed + a, job.dims[a]), AxisLength(job.dims[a], job.dx),
                   job.q, job.fracs[a], JobDielectric, job.mad_tol,
                   [j \in 0..job.dims[a]-1 |-> 0])

(* C5: one call of perform_es_corr, one call of perform_pot_corr per axis  *)
(* with that axis's grid, profiles and coordinate, the returned alignment  *)
(* term is the mean of the three corrections, and the diagnostics are      *)
(* keyed by exactly 0, 1, 2.                                               *)
C5_OncePerAxisAndMean ==
    pc = "done" =>
        /\ es_calls = 1
        /\ \A a \in Axes : pot_calls[a] = 1
        /\ DOMAIN plot_data = Axes
        /\ DOMAIN pot_corrs = Axes
        /\ \A a \in Axes :
            /\ plot_data[a].x = AxisGrid(job.dims[a], job.dx)
            /\ plot_data[a].dft_diff = OwnAxisResult(a).dft_diff
            /\ pot_corrs[a].nan = OwnAxisResult(a).nan
            /\ pot_corrs[a].num = OwnAxisResult(a).pot_corr
            /\ pot_corrs[a].den = OwnAxisResult(a).den
        /\ frey_corr.es = es_corr
        /\ frey_corr.nan = (\E a \in Axes : pot_corrs[a].nan)
        /\ (~frey_corr.nan =>
              3 * frey_corr.num * pot_corrs[0].den * pot_corrs[1].den * pot_corrs[2].den
                = frey_corr.den * (pot_corrs[0].num * pot_corrs[1].den * pot_corrs[2].den
                                   + pot_corrs[1].num * pot_corrs[0].den * pot_corrs[2].den
                                   + pot_corrs[2].num * pot_corrs[0].den * pot_corrs[1].den))

C5_Witness ==
    /\ pc = "done" /\ ~frey_corr.nan /\ frey_corr.num # 0
    /\ job.dims[0] # job.dims[2] /\ job.fracs[0] # job.fracs[1]
    /\ pot_corrs[0].num * pot_corrs[1].den # pot_corrs[1].num * pot_corrs[0].den

(* C6: for q = 0 the electrostatic correction and the potential-alignment  *)
(* correction of every axis, and with them both entries of the returned    *)
(* dictionary, are exactly 0.                                              *)
C6_ZeroChargeGivesZero ==
    (job.q = 0 /\ pc \in {"loop", "mean", "done"}) =>
        /\ es_corr = 0
        /\ \A a \in DOMAIN pot_corrs : ~pot_corrs[a].nan /\ pot_corrs[a].num = 0
        /\ (pc = "done" => frey_corr.es = 0 /\ ~frey_corr.nan /\ frey_corr.num = 0)
----------------------------------------------------------------------------
(* Properties of the slab optimizer (SpecOpt: one invocation, number 1).   *)

Searched(o) == o.runs > 0 /\ o.pc \in {"run", "parse", "done"}

Finished(o) == o.runs > 0 /\ o.pc \in {"parse", "done"}

(* C8: the search stops as converged exactly when, for the profile         *)
(* measured at the current shift, both slopes are below threshold_slope in *)
(* magnitude and the intercepts differ by less than threshold_C; the final *)
(* full run then uses that same shift and the average (C1 + C2) / 2 of the *)
(* intercepts of that same iteration.                                      *)
C8_ConvergedExactlyOnFlatProfile ==
    LET o == sl[1]
    IN  /\ o.pc = "load" =>
              /\ files.vline.writer = 1
              /\ files.vline.shift = o.shift
              /\ ~files.vline.full
        /\ Searched(o) =>
              (o.done <=> /\ Abs(o.m1) < ThresholdSlope
                          /\ Abs(o.m2) < ThresholdSlope
                          /\ Abs(o.C1 - o.C2) < ThresholdC)
        /\ (Finished(o) /\ o.done) =>
              /\ o.final.shift = o.shift
              /\ o.final.shift = o.lastrun.shift
              /\ 2 * o.final.C = o.C1 + o.C2
              /\ ~o.final.only_profile
        /\ (Finished(o) /\ ~o.done) => o.counter >= o.max_iter

C8_Witness ==
    LET o == sl[1]
    IN  /\ Finished(o) /\ o.done /\ o.runs = 2
        /\ o.shift # 0 /\ o.C1 # o.C2 /\ o.m1 # 0

(* C9: when the search gives up, the result is best-effort and the         *)
(* non-convergence is surfaced as an explicit warning, so that the caller  *)
(* can tell the unconverged result from a converged one.                   *)
C9_NonConvergenceIsWarned ==
    LET o == sl[1]
    IN  (Finished(o) /\ ~o.done) =>
            \E i \in 1..Len(o.log) : o.log[i] = "warning"

(* C15: in every non-converged iteration exactly one transition fires and  *)
(* it changes shift: slopes of opposite sign move shift by the fixed step  *)
(* 0.01 in the current search direction and leave the bracket alone;       *)
(* otherwise the bracket bound on the side given by sign(q) * (m1 + m2) is *)
(* set to the current shift, and shift moves by 1.0 outward when the       *)
(* opposite bound is infinite or to the midpoint when it is finite.        *)
C15_EveryUnconvergedIterationMoves ==
    [][LET o == sl[1]
           n == sl'[1]
       IN  (o.pc = "load" /\ n.pc = "run" /\ ~n.done) =>
              /\ n.shift # o.shift
              /\ IF n.m1 * n.m2 < 0
                 THEN /\ n.shift = IF o.shifting = "right"
                                   THEN o.shift + Nudge(o.max_iter)
                                   ELSE o.shift - Nudge(o.max_iter)
                      /\ n.smin = o.smin /\ n.smax = o.smax
                 ELSE IF (n.m1 + n.m2) * Sign(o.q) > 0
                 THEN /\ n.smin = <<o.shift>> /\ n.smax = o.smax
                      /\ IF o.smax = <<>> THEN n.shift = o.shift + Step(o.max_iter)
                         ELSE 2 * n.shift = o.shift + o.smax[1]
                 ELSE /\ n.smax = <<o.shift>> /\ n.smin = o.smin
                      /\ IF o.smin = <<>> THEN n.shift = o.shift - Step(o.max_iter)
                         ELSE 2 * n.shift = o.smin[1] + o.shift
      ]_vars

(* C16: the search loop ends, and the profile is evaluated (one run of the *)
(* executable in profile-only mode per iteration) at most max_iter times.  *)
C16_AtMostMaxIterProfileRuns ==
    LET o == sl[1]
    IN  /\ o.runs <= o.max_iter
        /\ o.counter + 1 <= o.max_iter

(* C17: at the start of every iteration the bracket is well-formed and     *)
(* holds the trial value: smin <= shift <= smax (SpecSearch).              *)
C17_ShiftInsideBracket ==
    LET o == sl[1]
    IN  (o.pc = "run" /\ LoopGoesOn(o)) =>
            /\ o.smin = <<>> \/ o.smin[1] <= o.shift
            /\ o.smax = <<>> \/ o.shift <= o.smax[1]
            /\ (o.smin # <<>> /\ o.smax # <<>>) => o.smin[1] <= o.smax[1]

----------------------------------------------------------------------------
(* Properties of concurrent invocations (SpecConc).                        *)

(* C10: invocations share no mutable state: every value an invocation      *)
(* reads was produced by that invocation's own steps, and so is what it    *)
(* returns.                                                                *)
C10_InvocationsReadOnlyTheirOwn ==
    \A p \in Procs :
        /\ sl[p].readfrom \subseteq {p}
        /\ sl[p].pc = "done" =>
              /\ sl[p].es.writer = p /\ sl[p].es.src = p
              /\ sl[p].metadata.writer = p /\ sl[p].metadata.src = p
----------------------------------------------------------------------------
(* Properties of Defect.get_charge_states (SpecCharge).                    *)

(* C18: for an integer oxidation state s the call returns the ascending    *)
(* list of the integers from min(s, 0) - 1 to max(s, 0) + 1 (so it holds   *)
(* -1, 0, +1 and s and has |s| + 3 entries); for a non-integer oxidation   *)
(* state it raises ValueError and returns no list.                         *)
C18_ChargeStatesSpanZeroAndOxiState ==
    charges.status # "none" =>
        LET x == defect.oxi_state.v
            L == charges.charges
        IN  IF x % OxiDen = 0
            THEN LET s  == CHOOSE k \in (-(OxiDen * MaxOxi * 2))..(OxiDen * MaxOxi * 2) : k * OxiDen = x
                     lo == (IF s < 0 THEN s ELSE 0) - 1
                     hi == (IF s > 0 THEN s ELSE 0) + 1
                 IN  /\ charges.status = "ok"
                     /\ Len(L) = hi - lo + 1
                     /\ Len(L) = Abs(s) + 3
                     /\ \A i \in 1..Len(L) : L[i] = lo + i - 1
                     /\ \A v \in {-1, 0, 1, s} : \E i \in 1..Len(L) : L[i] = v
            ELSE charges.status = "value_error" /\ L = <<>>
====
